---- MODULE Spec2Model ----
(***************************************************************************)
(* Model of src/backend/main.py: the demand forecast (forecast_demand),    *)
(* the inventory policy (calculate_inventory_optimization), the data       *)
(* access they share (get_product_data) and the two endpoints that call    *)
(* them (get_forecast, get_optimization_metrics).                          *)
(*                                                                         *)
(* Number representation.  Python floats are modelled exactly:             *)
(*   - forecast values and inventory levels are kept in half units         *)
(*     (HalfUnit * value), so that ceil(), round() and int() are real      *)
(*     conversions and not the identity;                                   *)
(*   - costs are kept in cents; only their sign and their ratio are used;  *)
(*   - service levels are kept in percent, z-scores in hundredths;         *)
(*   - a standard deviation is kept as its square, a reduced fraction      *)
(*     [num, den]; ceil(sqrt(n/d)) is computed exactly by CeilSqrt;        *)
(*   - a float that may be NaN or infinite is a record [k, v]: k is        *)
(*     "num" (the value v), "nan", "inf" or "-inf".                        *)
(***************************************************************************)
EXTENDS Integers, Sequences, FiniteSets, TLC

VARIABLES df, call, ret

vars == <<df, call, ret>>

(***************************************************************************)
(* Bounds of the model.                                                    *)
(***************************************************************************)
MaxRows == 2
MaxForecastLen == 2

(***************************************************************************)
(* Program constants and scales.                                           *)
(***************************************************************************)
ROLLING_WINDOW_DAYS == 90
HalfUnit == 2
ZScale == 100
DaysPerYear == 365

Num(x) == [k |-> "num", v |-> x]
NaN == [k |-> "nan", v |-> 0]
PosInf == [k |-> "inf", v |-> 0]
NegInf == [k |-> "-inf", v |-> 0]
\* pd.isna
isna(x) == x.k = "nan"

(***************************************************************************)
(* Arithmetic helpers.                                                     *)
(***************************************************************************)
Max(a, b) == IF a >= b THEN a ELSE b
Min(a, b) == IF a <= b THEN a ELSE b

RECURSIVE Gcd(_, _)
Gcd(a, b) == IF b = 0 THEN a ELSE Gcd(b, a % b)

RECURSIVE SumTo(_, _)
SumTo(s, k) == IF k = 0 THEN 0 ELSE s[k] + SumTo(s, k - 1)

\* sum(s)
SumSeq(s) == SumTo(s, Len(s))

\* sum of the squares of s
SumSqSeq(s) == SumSeq([k \in 1..Len(s) |-> s[k] * s[k]])

\* math.ceil(n / d) for d > 0
CeilDiv(n, d) == IF n >= 0 THEN (n + d - 1) \div d ELSE -((-n) \div d)

\* least k > lo with k*k >= m, searched in (lo, hi] where hi*hi >= m
RECURSIVE Bisect(_, _, _)
Bisect(lo, hi, m) ==
  IF hi - lo <= 1 THEN hi
  ELSE LET mid == (lo + hi) \div 2
       IN IF mid * mid >= m THEN Bisect(lo, mid, m) ELSE Bisect(mid, hi, m)

RECURSIVE UpperFor(_, _)
UpperFor(hi, m) == IF hi * hi >= m THEN hi ELSE UpperFor(2 * hi, m)

\* math.ceil(math.sqrt(n / d)) for d > 0: the least k >= 0 with k*k >= n/d,
\* that is with k*k >= ceil(n/d)
CeilSqrt(n, d) ==
  IF n <= 0 THEN 0
  ELSE LET m == CeilDiv(n, d) IN Bisect(0, UpperFor(1, m), m)

(***************************************************************************)
(* The dataset.  A row of df is [pid, day, sold, inv]: "Product ID",       *)
(* "Date" (a day number), "Units Sold" (units, or NaN) and                *)
(* "Inventory Level" (half units, or NaN).     load_data_from_csv sorts    *)
(* the rows by date and coerces unparsable numbers to NaN.                 *)
(***************************************************************************)
RequestIds == {"P1", "P9"}
SoldValues == {NaN, Num(0), Num(6)}
InvLevels == {NaN, Num(-2), Num(3), Num(100)}

Row(p, d, s, i) == [pid |-> p, day |-> d, sold |-> s, inv |-> i]

\* n rows of product P1 on consecutive days: the first n-1 sold a, the last
\* sold b and holds inventory i
ShortDataset(n, a, b, i) ==
  [k \in 1..n |-> IF k < n THEN Row("P1", k, a, Num(8)) ELSE Row("P1", k, b, i)]

ShortDatasets ==
  {ShortDataset(n, a, b, i) : n \in 1..MaxRows, a \in SoldValues, b \in SoldValues,
                              i \in InvLevels}

\* datasets that reach the minimum-data thresholds and the rolling window:
\* twelve days of constant sales, and a few rows spread over a hundred days
SpecialDatasets ==
  { <<>>,
    << Row("P2", 1, Num(6), Num(0)) >>,
    << Row("P1", 1, Num(6), Num(0)), Row("P2", 2, Num(6), Num(0)),
       Row("P1", 12, Num(0), Num(100)) >>,
    [k \in 1..12 |-> Row("P1", k, Num(10), Num(140))],
    << Row("P1", 1, Num(0), NaN), Row("P1", 100, Num(0), Num(140)) >>,
    << Row("P1", 1, Num(6), Num(0)), Row("P1", 100, Num(6), Num(100)),
       Row("P1", 100, NaN, Num(1200)) >>,
    << Row("P1", 1, Num(6), Num(0)), Row("P1", 60, Num(6), Num(8)),
       Row("P1", 100, Num(6), Num(220)) >> }

Datasets == ShortDatasets \cup SpecialDatasets

(***************************************************************************)
(* Outcomes: a returned value, or a raised HTTPException.                  *)
(***************************************************************************)
Ok(v) == [status |-> 200, detail |-> "OK", value |-> v]
Raise(code, d) == [status |-> code, detail |-> d, value |-> <<>>]

(***************************************************************************)
(* get_product_data                                                        *)
(***************************************************************************)
\* product_data.set_index("Date")["Units Sold"].resample('D').sum(): one value
\* per calendar day from the first to the last row (the rows are sorted by
\* date), the sum of the day's rows, 0 on a day without rows
DailySum(rows) ==
  IF rows = <<>> THEN <<>>
  ELSE LET first == rows[1].day
           last == rows[Len(rows)].day
           SoldOn(d) == SumSeq([k \in 1..Len(rows) |->
                                  IF rows[k].day = d THEN rows[k].sold.v ELSE 0])
       IN [k \in 1..(last - first + 1) |-> SoldOn(first + k - 1)]

get_product_data(d, product_id) ==
  IF d = <<>> THEN Raise(503, "DataUnavailable")
  ELSE LET product_data == SelectSeq(d, LAMBDA r : r.pid = product_id)
           valid == SelectSeq(product_data, LAMBDA r : ~isna(r.sold))
       IN IF product_data = <<>> THEN Raise(404, "ProductNotFound")
          ELSE IF valid = <<>> THEN Raise(400, "NoData")
          ELSE Ok([product_data |-> valid, ts_data |-> DailySum(valid)])

(***************************************************************************)
(* Demand variability (lines 141-154).  The result is the square of the    *)
(* standard deviation, as the reduced fraction num/den; nan marks NaN.     *)
(***************************************************************************)
\* pandas .std(): sample variance (ddof = 1); NaN below two observations
Variance(s) ==
  LET n == Len(s)
      num == n * SumSqSeq(s) - SumSeq(s) * SumSeq(s)
      den == n * (n - 1)
      g == Gcd(num, den)
  IN IF n < 2 THEN [nan |-> TRUE, num |-> 0, den |-> 1]
     ELSE IF num = 0 THEN [nan |-> FALSE, num |-> 0, den |-> 1]
     ELSE [nan |-> FALSE, num |-> num \div g, den |-> den \div g]

std_dev_demand(daily_sales) ==
  LET n == Len(daily_sales)
      raw == IF n >= ROLLING_WINDOW_DAYS
               THEN Variance(SubSeq(daily_sales, n - ROLLING_WINDOW_DAYS + 1, n))
             ELSE IF n >= 2 THEN Variance(daily_sales)
             ELSE [nan |-> FALSE, num |-> 0, den |-> 1]
  IN IF raw.nan THEN [nan |-> FALSE, num |-> 0, den |-> 1] ELSE raw

variability_method(daily_sales) ==
  IF Len(daily_sales) >= ROLLING_WINDOW_DAYS THEN "rolling"
  ELSE IF Len(daily_sales) >= 2 THEN "overall"
  ELSE "insufficient-data"


(***************************************************************************)
(* forecast_demand (lines 93-127).  The fit of the statistical model is    *)
(* the library's: its outcome (fit) and the values it projects (raw, in    *)
(* half units, one per forecast day) are inputs of the model.              *)
(***************************************************************************)
ModelTypes == {"ARIMA", "ExponentialSmoothing", "Prophet"}
FitOutcomes == {"ok", "ValueError", "Exception"}

\* the library's behaviour the code relies on: ExponentialSmoothing(seasonal="add")
\* rejects seasonal_periods <= 1 with a ValueError when it is constructed
LibraryOutcomes(model_type, seasonal_periods) ==
  IF model_type = "ExponentialSmoothing" /\ seasonal_periods <= 1
    THEN {"ValueError"}
    ELSE FitOutcomes

min_data_points(model_type, seasonal_periods) ==
  Max(10, IF model_type = "ExponentialSmoothing" THEN 2 * seasonal_periods ELSE 10)

\* forecast[forecast < 0] = 0
Clip(x) == IF x < 0 THEN 0 ELSE x

\* numpy round (half to even) of a non-negative value in half units; the result
\* is a float again, in half units
RoundHalfEven(x) ==
  LET q == x \div HalfUnit
      r == x % HalfUnit
  IN HalfUnit * (IF r = 0 THEN q ELSE IF q % 2 = 0 THEN q ELSE q + 1)

\* lines 105-123, the body of the try block: exc is the exception that leaves it
fitting_block(model_type, forecast_days, seasonal_periods, fit, raw) ==
  IF model_type = "ARIMA" THEN
    IF fit = "ok"
      THEN [exc |-> "none",
            out |-> Ok([k \in 1..Len(raw) |-> RoundHalfEven(Clip(raw[k]))])]
      ELSE [exc |-> fit, out |-> Raise(500, "Unhandled")]
  ELSE IF model_type = "ExponentialSmoothing" THEN
    IF fit = "ok"
      THEN [exc |-> "none",
            out |-> Ok([k \in 1..Len(raw) |-> RoundHalfEven(Clip(raw[k]))])]
    ELSE IF fit = "ValueError"
      THEN [exc |-> "HTTPException", out |-> Raise(400, "ModelFitFailure")]
      ELSE [exc |-> fit, out |-> Raise(500, "Unhandled")]
  ELSE [exc |-> "HTTPException", out |-> Raise(400, "InvalidModelType")]

\* lines 125-127: except Exception catches whatever leaves the try block,
\* HTTPException included
except_Exception(r) ==
  IF r.exc = "none" THEN r.out ELSE Raise(500, "InternalError")

\* a forecast_demand that validates the horizon before the amount of data
forecast_demand_horizon_first(ts_data, model_type, forecast_days, seasonal_periods, fit, raw) ==
  IF forecast_days <= 0
    THEN Raise(400, "InvalidParameter")
  ELSE IF Len(ts_data) < min_data_points(model_type, seasonal_periods)
    THEN Raise(400, "InsufficientData")
  ELSE except_Exception(
         fitting_block(model_type, forecast_days, seasonal_periods, fit, raw))

forecast_demand(ts_data, model_type, forecast_days, seasonal_periods, fit, raw) ==
  IF Len(ts_data) < min_data_points(model_type, seasonal_periods)
    THEN Raise(400, "InsufficientData")
  ELSE IF forecast_days <= 0
    THEN Raise(400, "InvalidParameter")
  ELSE except_Exception(
         fitting_block(model_type, forecast_days, seasonal_periods, fit, raw))

\* the try block is entered and a model is constructed (line 107 or line 112)
fit_attempted(ts_data, model_type, forecast_days, seasonal_periods) ==
  /\ Len(ts_data) >= min_data_points(model_type, seasonal_periods)
  /\ forecast_days > 0
  /\ model_type \in {"ARIMA", "ExponentialSmoothing"}

(***************************************************************************)
(* calculate_inventory_optimization (lines 130-232)                        *)
(***************************************************************************)
\* scipy.stats.norm.ppf at a service level in percent, in hundredths
z_score(service_level) ==
  CASE service_level = 0 -> NegInf
    [] service_level = 5 -> Num(-164)
    [] service_level = 50 -> Num(0)
    [] service_level = 95 -> Num(164)
    [] service_level = 99 -> Num(233)
    [] service_level = 100 -> PosInf
    [] OTHER -> NaN

\* lines 159-160: z_score * sqrt(lead_time_days) * std_dev_demand, then
\* math.ceil of it when it is > 0, else 0.  inf * 0 is nan, and nan > 0 is
\* False; math.ceil(inf) raises OverflowError
safety_stock(z, lead_time_days, var) ==
  IF z.k = "num" THEN
    IF z.v > 0 /\ var.num > 0
      THEN [exc |-> "none",
            v |-> CeilSqrt(z.v * z.v * lead_time_days * var.num, ZScale * ZScale * var.den)]
      ELSE [exc |-> "none", v |-> 0]
  ELSE IF z.k = "inf" /\ var.num > 0 THEN [exc |-> "OverflowError", v |-> 0]
  ELSE [exc |-> "none", v |-> 0]

\* lines 162-166
demand_during_lead_time(forecast_values, lead_time_days) ==
  LET actual_lead_time_forecast_days == Min(Len(forecast_values), lead_time_days)
  IN CeilDiv(SumSeq(SubSeq(forecast_values, 1, actual_lead_time_forecast_days)), HalfUnit)

\* a reorder point that leaves the safety stock out
reorder_point_without_safety_stock(ddlt, ss) == ddlt

\* line 168
reorder_point(ddlt, ss) == ddlt + ss

\* lines 170-178: the annual demand as the fraction num/den of units
annual_demand(forecast_values) ==
  IF Len(forecast_values) > 0
    THEN [num |-> SumSeq(forecast_values) * DaysPerYear,
          den |-> HalfUnit * Len(forecast_values)]
    ELSE [num |-> 0, den |-> 1]

\* an order quantity without the factor 2 of the square-root formula
economic_order_quantity_without_factor(annual, holding_cost, ordering_cost) ==
  IF annual.num <= 0 \/ holding_cost <= 0 \/ ordering_cost < 0
    THEN 0
    ELSE CeilSqrt(annual.num * ordering_cost, annual.den * holding_cost)

\* an order quantity rounded down (int) instead of up (math.ceil)
economic_order_quantity_rounded_down(annual, holding_cost, ordering_cost) ==
  IF annual.num <= 0 \/ holding_cost <= 0 \/ ordering_cost < 0
    THEN 0
    ELSE LET n == 2 * annual.num * ordering_cost
             d == annual.den * holding_cost
             c == CeilSqrt(n, d)
         IN IF c * c * d = n THEN c ELSE c - 1

\* lines 180-185
economic_order_quantity(annual, holding_cost, ordering_cost) ==
  IF annual.num <= 0 \/ holding_cost <= 0 \/ ordering_cost < 0
    THEN 0
    ELSE CeilSqrt(2 * annual.num * ordering_cost, annual.den * holding_cost)

\* int(): truncation toward zero of a value in half units
IntTrunc(h) == IF h >= 0 THEN h \div HalfUnit ELSE -((-h) \div HalfUnit)

\* lines 187-197
current_inventory(product_hist_data) ==
  IF product_hist_data = <<>> THEN 0
  ELSE LET latest_entry == product_hist_data[Len(product_hist_data)]
       IN IF isna(latest_entry.inv) THEN 0 ELSE IntTrunc(latest_entry.inv.v)

\* a suggestion whose overstock threshold is reorder point + max(EOQ, safety stock)
suggestion_with_max(cur, rop, eoq, ss) ==
  IF cur <= rop THEN
    LET order_qty == Max(0, IF eoq > 0 THEN eoq ELSE rop + ss - cur)
    IN IF order_qty > 0 THEN [kind |-> "order", qty |-> order_qty]
       ELSE [kind |-> "review", qty |-> 0]
  ELSE IF cur > rop + Max(eoq, ss)
    THEN [kind |-> "overstock", qty |-> 0]
  ELSE [kind |-> "maintain", qty |-> 0]

\* a suggestion whose fallback order quantity only refills to the reorder point
suggestion_refill_to_reorder_point(cur, rop, eoq, ss) ==
  IF cur <= rop THEN
    LET order_qty == Max(0, IF eoq > 0 THEN eoq ELSE rop - cur)
    IN IF order_qty > 0 THEN [kind |-> "order", qty |-> order_qty]
       ELSE [kind |-> "review", qty |-> 0]
  ELSE IF cur > rop + (IF eoq > 0 THEN eoq ELSE ss)
    THEN [kind |-> "overstock", qty |-> 0]
  ELSE [kind |-> "maintain", qty |-> 0]

\* lines 199-208
suggestion(cur, rop, eoq, ss) ==
  IF cur <= rop THEN
    LET order_qty == Max(0, IF eoq > 0 THEN eoq ELSE rop + ss - cur)
    IN IF order_qty > 0 THEN [kind |-> "order", qty |-> order_qty]
       ELSE [kind |-> "review", qty |-> 0]
  ELSE IF cur > rop + (IF eoq > 0 THEN eoq ELSE ss)
    THEN [kind |-> "overstock", qty |-> 0]
  ELSE [kind |-> "maintain", qty |-> 0]

calculate_inventory_optimization(d, product_id, forecast_values, lead_time_days, service_level, holding_cost, ordering_cost) ==
  LET data == get_product_data(d, product_id)
  IN IF data.status # 200 THEN data
     ELSE
       LET product_hist_data == data.value.product_data
           daily_sales == DailySum(product_hist_data)
           var == std_dev_demand(daily_sales)
           ss == safety_stock(z_score(service_level), lead_time_days, var)
           ddlt == demand_during_lead_time(forecast_values, lead_time_days)
           rop == reorder_point(ddlt, ss.v)
           eoq == economic_order_quantity(annual_demand(forecast_values),
                                          holding_cost, ordering_cost)
           cur == current_inventory(product_hist_data)
       IN IF ss.exc # "none" THEN Raise(500, "InternalError")
          ELSE Ok([current_inventory |-> cur,
                   safety_stock |-> ss.v,
                   reorder_point |-> rop,
                   economic_order_quantity |-> eoq,
                   demand_during_lead_time |-> ddlt,
                   suggestion |-> suggestion(cur, rop, eoq, ss.v),
                   demand_variability_method |-> variability_method(daily_sales)])

(***************************************************************************)
(* The endpoints (lines 250-326).  FastAPI checks the Query constraints    *)
(* (gt, ge, le) before the handler runs and answers 422 when one fails;    *)
(* the enum of model_type is documentation only and is not checked.        *)
(***************************************************************************)
get_forecast(d, product_id, model_type, forecast_days, seasonal_periods, fit, raw) ==
  IF ~(forecast_days > 0 /\ seasonal_periods > 1) THEN Raise(422, "ValidationError")
  ELSE
    LET data == get_product_data(d, product_id)
    IN IF data.status # 200 THEN data
       ELSE
         LET forecast == forecast_demand(data.value.ts_data, model_type, forecast_days,
                                         seasonal_periods, fit, raw)
         IN IF forecast.status # 200 THEN forecast
            ELSE Ok([model_type |-> model_type,
                     forecast_days |-> forecast_days,
                     forecast |-> forecast.value])

get_optimization_metrics(d, product_id, model_type, lead_time_days, service_level, holding_cost, ordering_cost, forecast_days, seasonal_periods, fit, raw) ==
  IF ~(/\ lead_time_days > 0
       /\ service_level >= 0 /\ service_level <= 100
       /\ holding_cost >= 0 /\ ordering_cost >= 0
       /\ forecast_days > 0 /\ seasonal_periods > 1)
    THEN Raise(422, "ValidationError")
  ELSE
    LET data == get_product_data(d, product_id)
    IN IF data.status # 200 THEN data
       ELSE
         LET forecast_values == forecast_demand(data.value.ts_data, model_type,
                                                forecast_days, seasonal_periods, fit, raw)
         IN IF forecast_values.status # 200 THEN forecast_values
            ELSE calculate_inventory_optimization(d, product_id, forecast_values.value,
                     lead_time_days, service_level, holding_cost, ordering_cost)

(***************************************************************************)
(* Inputs.                                                                 *)
(***************************************************************************)
\* a sequence of n values: a on the first n-1 days, b on the last
Pattern(n, a, b) == [k \in 1..n |-> IF k < n THEN a ELSE b]

\* what a fitted model projects, in half units
RawValues == {-3, 1, 3, 20}
RawForecasts(n) == {Pattern(n, a, b) : a \in RawValues, b \in RawValues}
LibraryForecasts(fit, forecast_days) ==
  IF fit = "ok" /\ forecast_days > 0 THEN RawForecasts(forecast_days) ELSE {<<>>}

ForecastDays == {-1, 0, 1, MaxForecastLen}
SeasonalPeriods == {0, 1, 2, 7}

\* forecast lists handed to calculate_inventory_optimization, in half units
ForecastValues == {-2, 0, 1, 20}
ForecastLists ==
  {Pattern(n, a, b) : n \in 0..MaxForecastLen, a \in ForecastValues, b \in ForecastValues}
    \cup {Pattern(n, 20, 20) : n \in {5, 7, 8}}

LeadTimes == {1, 7}
ServiceLevels == {0, 5, 50, 95, 99, 100}
\* <<holding cost per unit per year, ordering cost per order>>, in cents
CostPairs == {<<0, 5000>>, <<150, -100>>, <<150, 0>>, <<150, 1>>, <<150, 5000>>}

\* query strings of the endpoints; the optimization endpoint is called with
\* its default costs, holding_cost = 1.50 and ordering_cost = 50.00
QueryLeadTimes == {0, 7}
QueryServiceLevels == {95, 100, 105}
QueryForecastDays == {0, 1}
QuerySeasonalPeriods == {1, 7}

NoCall == [fn |-> "none"]
NoRet == [status |-> 0, detail |-> "none", value |-> <<>>]

(***************************************************************************)
(* The state machine: df is loaded once, at import (lines 56-63); each     *)
(* action is one whole call; Respond hands the outcome to the caller.      *)
(***************************************************************************)
Init ==
  /\ df \in Datasets
  /\ call = NoCall
  /\ ret = NoRet

ForecastDemandCall ==
  /\ call.fn = "none"
  /\ \E model_type \in ModelTypes, forecast_days \in ForecastDays,
        seasonal_periods \in SeasonalPeriods :
       \E fit \in LibraryOutcomes(model_type, seasonal_periods) :
         \E raw \in LibraryForecasts(fit, forecast_days) :
           LET data == get_product_data(df, "P1")
           IN /\ data.status = 200
              /\ call' = [fn |-> "forecast_demand",
                          n |-> Len(data.value.ts_data),
                          model_type |-> model_type,
                          forecast_days |-> forecast_days,
                          seasonal_periods |-> seasonal_periods,
                          fit |-> fit, raw |-> raw,
                          fit_attempted |-> fit_attempted(data.value.ts_data, model_type,
                                                          forecast_days, seasonal_periods)]
              /\ ret' = forecast_demand(data.value.ts_data, model_type, forecast_days,
                                        seasonal_periods, fit, raw)
  /\ UNCHANGED df

CalculateCall ==
  /\ call.fn = "none"
  /\ \E product_id \in RequestIds, forecast_values \in ForecastLists,
        lead_time_days \in LeadTimes, service_level \in ServiceLevels,
        costs \in CostPairs :
       /\ call' = [fn |-> "calculate_inventory_optimization",
                   product_id |-> product_id,
                   forecast_values |-> forecast_values,
                   lead_time_days |-> lead_time_days,
                   service_level |-> service_level,
                   holding_cost |-> costs[1],
                   ordering_cost |-> costs[2]]
       /\ ret' = calculate_inventory_optimization(df, product_id, forecast_values,
                    lead_time_days, service_level, costs[1], costs[2])
  /\ UNCHANGED df

GetForecast ==
  /\ call.fn = "none"
  /\ \E product_id \in RequestIds, model_type \in ModelTypes,
        forecast_days \in QueryForecastDays, seasonal_periods \in QuerySeasonalPeriods :
       \E fit \in LibraryOutcomes(model_type, seasonal_periods) :
         \E raw \in LibraryForecasts(fit, forecast_days) :
           /\ call' = [fn |-> "get_forecast",
                       product_id |-> product_id,
                       model_type |-> model_type,
                       forecast_days |-> forecast_days,
                       seasonal_periods |-> seasonal_periods,
                       fit |-> fit, raw |-> raw]
           /\ ret' = get_forecast(df, product_id, model_type, forecast_days,
                                  seasonal_periods, fit, raw)
  /\ UNCHANGED df

GetOptimizationMetrics ==
  /\ call.fn = "none"
  /\ \E product_id \in RequestIds, model_type \in ModelTypes,
        lead_time_days \in QueryLeadTimes, service_level \in QueryServiceLevels,
        forecast_days \in QueryForecastDays, seasonal_periods \in QuerySeasonalPeriods :
       \E fit \in LibraryOutcomes(model_type, seasonal_periods) :
         \E raw \in LibraryForecasts(fit, forecast_days) :
           /\ call' = [fn |-> "get_optimization_metrics",
                       product_id |-> product_id,
                       model_type |-> model_type,
                       lead_time_days |-> lead_time_days,
                       service_level |-> service_level,
                       holding_cost |-> 150,
                       ordering_cost |-> 5000,
                       forecast_days |-> forecast_days,
                       seasonal_periods |-> seasonal_periods,
                       fit |-> fit, raw |-> raw]
           /\ ret' = get_optimization_metrics(df, product_id, model_type, lead_time_days,
                        service_level, 150, 5000, forecast_days, seasonal_periods,
                        fit, raw)
  /\ UNCHANGED df

Respond ==
  /\ call.fn # "none"
  /\ call' = NoCall
  /\ ret' = NoRet
  /\ UNCHANGED df

Next ==
  \/ ForecastDemandCall
  \/ CalculateCall
  \/ GetForecast
  \/ GetOptimizationMetrics
  \/ Respond

Spec == Init /\ [][Next]_vars

(***************************************************************************)
(* The claims.                                                             *)
(***************************************************************************)
\* calculate_inventory_optimization was called and returned a policy
Calculated == call.fn = "calculate_inventory_optimization" /\ ret.status = 200

\* a policy was returned, by the function or through the endpoint
PolicyReturned ==
  /\ call.fn \in {"calculate_inventory_optimization", "get_optimization_metrics"}
  /\ ret.status = 200

\* forecast_demand was called
Forecasted == call.fn = "forecast_demand"

\* the demand variability of the product the call is about (std_dev_demand squared)
HistoryVariance ==
  std_dev_demand(DailySum(get_product_data(df, call.product_id).value.product_data))

\* C1: in every returned policy, the reorder point is the demand during lead
\* time plus the safety stock.
C1_ReorderPointIsDemandPlusSafety ==
  PolicyReturned =>
    ret.value.reorder_point =
      ret.value.demand_during_lead_time + ret.value.safety_stock

C1_Witness ==
  /\ Calculated
  /\ ret.value.safety_stock > 0
  /\ ret.value.demand_during_lead_time > 0

\* C2: in every policy returned for a non-negative forecast, the current
\* inventory, safety stock, reorder point, order quantity and demand during
\* lead time are non-negative integers, whatever the latest row records.
C2_QuantitiesNonNegative ==
  (Calculated /\ \A k \in 1..Len(call.forecast_values) : call.forecast_values[k] >= 0) =>
    /\ ret.value.current_inventory \in Nat
    /\ ret.value.safety_stock \in Nat
    /\ ret.value.reorder_point \in Nat
    /\ ret.value.economic_order_quantity \in Nat
    /\ ret.value.demand_during_lead_time \in Nat

\* C3 as stated: the order branch when the current inventory is at most the
\* reorder point; else overstock exactly when the current inventory exceeds
\* reorder point + max(EOQ, safety stock); else maintain.
C3_OverstockAboveMax ==
  Calculated =>
    LET p == ret.value
        kind == p.suggestion.kind
    IN /\ (kind \in {"order", "review"}) <=> (p.current_inventory <= p.reorder_point)
       /\ (kind = "overstock") <=>
            /\ p.current_inventory > p.reorder_point
            /\ p.current_inventory >
                 p.reorder_point + Max(p.economic_order_quantity, p.safety_stock)
       /\ (kind = "maintain") <=>
            /\ p.current_inventory > p.reorder_point
            /\ p.current_inventory <=
                 p.reorder_point + Max(p.economic_order_quantity, p.safety_stock)

\* C3 amended: the order branch when the current inventory is at most the
\* reorder point; else overstock exactly when the current inventory exceeds
\* reorder point + EOQ if EOQ > 0, and reorder point + safety stock if EOQ = 0;
\* else maintain.
C3_OverstockAboveEoqElseSafety ==
  Calculated =>
    LET p == ret.value
        kind == p.suggestion.kind
        margin == IF p.economic_order_quantity > 0
                    THEN p.economic_order_quantity ELSE p.safety_stock
    IN /\ (kind \in {"order", "review"}) <=> (p.current_inventory <= p.reorder_point)
       /\ (kind = "overstock") <=>
            /\ p.current_inventory > p.reorder_point
            /\ p.current_inventory > p.reorder_point + margin
       /\ (kind = "maintain") <=>
            /\ p.current_inventory > p.reorder_point
            /\ p.current_inventory <= p.reorder_point + margin

\* an overstock warning between the two thresholds, with 0 < EOQ < safety stock
C3_Witness ==
  /\ Calculated
  /\ ret.value.economic_order_quantity > 0
  /\ ret.value.economic_order_quantity < ret.value.safety_stock
  /\ ret.value.current_inventory >
       ret.value.reorder_point + ret.value.economic_order_quantity
  /\ ret.value.current_inventory <= ret.value.reorder_point + ret.value.safety_stock
  /\ ret.value.suggestion.kind = "overstock"

\* the scenario of C4: 10 units a day forecast over at least 7 days, standard
\* deviation 0, lead time 7, service level 0.95, holding cost 1.50, ordering
\* cost 50.00
C4_Scenario ==
  /\ Calculated
  /\ Len(call.forecast_values) >= 7
  /\ \A k \in 1..Len(call.forecast_values) : call.forecast_values[k] = 10 * HalfUnit
  /\ HistoryVariance.num = 0
  /\ call.lead_time_days = 7
  /\ call.service_level = 95
  /\ call.holding_cost = 150
  /\ call.ordering_cost = 5000

\* the annual demand of the call's forecast is 3650 units
C4_AnnualDemand ==
  SumSeq(call.forecast_values) * DaysPerYear =
    3650 * HalfUnit * Len(call.forecast_values)

\* C4 as stated: in the scenario the safety stock is 0, the demand during lead
\* time 70, the reorder point 70, the annual demand 3650 and the EOQ 493.
C4_ScenarioEoq493 ==
  C4_Scenario =>
    /\ ret.value.safety_stock = 0
    /\ ret.value.demand_during_lead_time = 70
    /\ ret.value.reorder_point = 70
    /\ C4_AnnualDemand
    /\ ret.value.economic_order_quantity = 493

\* C4 amended: in the scenario the safety stock is 0, the demand during lead
\* time 70, the reorder point 70, the annual demand 3650 and the EOQ 494, the
\* ceiling of sqrt(2*3650*50/1.5) = 493.28...
C4_ScenarioEoq494 ==
  C4_Scenario =>
    /\ ret.value.safety_stock = 0
    /\ ret.value.demand_during_lead_time = 70
    /\ ret.value.reorder_point = 70
    /\ C4_AnnualDemand
    /\ ret.value.economic_order_quantity = 494

C4_Witness == C4_Scenario /\ ret.value.economic_order_quantity = 494

\* C5 as stated: forecast_demand with forecast_days <= 0 fails with
\* InvalidParameter for every model type and every series, short ones included.
C5_HorizonCheckedFirst ==
  (Forecasted /\ call.forecast_days <= 0) =>
    ret.status = 400 /\ ret.detail = "InvalidParameter"

\* C5 amended: forecast_demand with forecast_days <= 0 always fails with a 400
\* error: InsufficientData when the series is shorter than the model's
\* minimum, InvalidParameter otherwise; the minimum-data validation is
\* applied before the horizon validation.
C5_DataCheckedFirst ==
  (Forecasted /\ call.forecast_days <= 0) =>
    /\ ret.status = 400
    /\ ret.detail = IF call.n < Max(10, IF call.model_type = "ExponentialSmoothing"
                                         THEN 2 * call.seasonal_periods ELSE 10)
                      THEN "InsufficientData" ELSE "InvalidParameter"

C5_Witness ==
  /\ Forecasted
  /\ call.forecast_days <= 0
  /\ call.n < 10
  /\ ret.detail = "InsufficientData"

\* C6: forecast_demand with ExponentialSmoothing and seasonal_periods <= 1
\* never attempts a fit and fails with InvalidParameter, or InsufficientData
\* when the series is too short.
C6_SeasonalPeriodRejected ==
  (Forecasted /\ call.model_type = "ExponentialSmoothing" /\ call.seasonal_periods <= 1) =>
    /\ ~call.fit_attempted
    /\ ret.status = 400
    /\ ret.detail \in {"InvalidParameter", "InsufficientData"}

\* C7: for the history and lead time of a call, the safety stock is
\* non-decreasing in the service level over all of [0, 1]: the call yields a
\* policy, and so does a call at any lower service level, with a safety
\* stock that is no larger.
C7_SafetyStockMonotone ==
  (/\ call.fn = "calculate_inventory_optimization"
   /\ get_product_data(df, call.product_id).status = 200) =>
    /\ ret.status = 200
    /\ \A s1 \in ServiceLevels :
         s1 <= call.service_level =>
           LET r1 == calculate_inventory_optimization(df, call.product_id,
                        call.forecast_values, call.lead_time_days, s1,
                        call.holding_cost, call.ordering_cost)
           IN r1.status = 200 /\ r1.value.safety_stock <= ret.value.safety_stock

\* C8: when the current inventory is at most the reorder point, the order
\* quantity is the EOQ if it is > 0 and else max(0, reorder point + safety
\* stock - current inventory); an order suggestion carries it when it is > 0,
\* and the review message is emitted exactly when it is 0.
C8_OrderQuantity ==
  Calculated =>
    LET p == ret.value
        quantity == IF p.economic_order_quantity > 0
                      THEN p.economic_order_quantity
                      ELSE Max(0, p.reorder_point + p.safety_stock - p.current_inventory)
    IN /\ (p.current_inventory <= p.reorder_point /\ quantity > 0) =>
            p.suggestion = [kind |-> "order", qty |-> quantity]
       /\ (p.suggestion.kind = "review") <=>
            (p.current_inventory <= p.reorder_point /\ quantity = 0)

\* an order of the fallback quantity, with a safety stock
C8_Witness ==
  /\ Calculated
  /\ ret.value.economic_order_quantity = 0
  /\ ret.value.safety_stock > 0
  /\ ret.value.suggestion.kind = "order"
  /\ ret.value.suggestion.qty =
       ret.value.reorder_point + ret.value.safety_stock - ret.value.current_inventory

\* C9: the EOQ is 0 when the annual demand is 0 (an empty forecast included),
\* the holding cost is 0 or the ordering cost is negative; with a positive
\* annual demand, a positive holding cost and a non-negative ordering cost it
\* is ceil(sqrt(2 * annual demand * ordering cost / holding cost)): the least
\* q >= 0 with q*q * holding cost >= 2 * annual demand * ordering cost.
C9_EoqFormula ==
  Calculated =>
    LET q == ret.value.economic_order_quantity
        n == Len(call.forecast_values)
        total == SumSeq(call.forecast_values)
        \* 2 * annual demand * ordering cost / holding cost = top / bottom
        top == total * DaysPerYear * call.ordering_cost
        bottom == HalfUnit * n * call.holding_cost
    IN /\ (n = 0 \/ total = 0 \/ call.holding_cost = 0 \/ call.ordering_cost < 0) => q = 0
       /\ (n > 0 /\ total > 0 /\ call.holding_cost > 0 /\ call.ordering_cost >= 0) =>
            /\ q >= 0
            /\ q * q * bottom >= 2 * top
            /\ q > 0 => (q - 1) * (q - 1) * bottom < 2 * top

C9_Witness ==
  /\ Calculated
  /\ call.ordering_cost > 0
  /\ ret.value.economic_order_quantity > 1
  /\ ret.value.economic_order_quantity < 100

\* C10: a 400 error raised inside the fitting block of forecast_demand (an
\* unsupported model type, or a ValueError of the exponential-smoothing fit)
\* reaches the caller as that 400 error.
C10_CallerErrorsKept ==
  (/\ Forecasted
   /\ call.n >= 10 /\ call.n >= 2 * call.seasonal_periods
   /\ call.forecast_days > 0
   /\ \/ call.model_type \notin {"ARIMA", "ExponentialSmoothing"}
      \/ call.model_type = "ExponentialSmoothing" /\ call.fit = "ValueError") =>
    /\ ret.status = 400
    /\ ret.detail \in {"InvalidModelType", "ModelFitFailure"}

====
